---- MODULE Spec2Model ----
(***************************************************************************)
(* Content-proofing pipeline: the relational store (contents, suggestions, *)
(* audit_logs, crawl_jobs), the suggestion lifecycle (approve / reject /   *)
(* apply), the analyzer (local rule backend and remote backend, chunked)   *)
(* and the recursive crawler with its job status.                          *)
(*                                                                         *)
(* Text is a sequence of one-character strings.  Offsets are Python        *)
(* offsets (0-based, half-open); sequences are 1-based.                    *)
(***************************************************************************)
EXTENDS Integers, Sequences, FiniteSets, TLC

VARIABLES
    settings,      \* app.core.config.settings, fixed for the process
    contents,      \* table contents:    id -> row
    suggestions,   \* table suggestions: id -> row
    audit_logs,    \* table audit_logs:  sequence of rows, in insertion order
    crawl_jobs,    \* table crawl_jobs:  id -> row
    analyzer,      \* the ContentAnalyzer.analyze_content coroutine in flight
    crawler,       \* per job: the WebCrawler.crawl_url task
    resp           \* the result of the last call that returned

vars == <<settings, contents, suggestions, audit_logs, crawl_jobs, analyzer, crawler, resp>>

store == <<contents, suggestions, audit_logs, crawl_jobs>>

----------------------------------------------------------------------------
(* Bounds of the model *)

\* rows the suggestions table may hold
MaxSuggestions == 2
\* audit rows the analyzer and the reviews may write
MaxAudit == 3
\* longest cleaned_text an apply may produce
MaxTextLen == 6
\* raw suggestions in one response of the remote backend
MaxProposed == 1
\* settings.MAX_API_TOKENS, scaled down
MAX_API_TOKENS == 1

CHAR_PER_TOKEN == 4

\* a NULL foreign key
NULL == 0

----------------------------------------------------------------------------
(* Helpers *)

Max(a, b) == IF a >= b THEN a ELSE b

Min(a, b) == IF a <= b THEN a ELSE b

MaxId(S) == IF S = {} THEN 0 ELSE CHOOSE m \in S : \A x \in S : x <= m

RECURSIVE SetToSeq(_)
\* the elements of a set of integers in increasing order
SetToSeq(S) ==
    IF S = {} THEN <<>>
    ELSE LET m == CHOOSE x \in S : \A y \in S : x <= y
         IN  <<m>> \o SetToSeq(S \ {m})

\* Python's normalisation of a slice bound n for a sequence of length len
SliceBound(n, len) ==
    IF n < 0 THEN Max(len + n, 0) ELSE Min(n, len)

\* Python's t[lo:hi]
PySlice(t, lo, hi) ==
    SubSeq(t, SliceBound(lo, Len(t)) + 1, SliceBound(hi, Len(t)))

IsLetter(c) == c \in {"a", "b", "W"}

IsEndPunct(c) == c \in {".", "!", "?"}

----------------------------------------------------------------------------
(* Rows *)

Response(op, arg, ret, code) == [op |-> op, arg |-> arg, ret |-> ret, code |-> code]

NoResponse == Response("none", NULL, "none", 0)

\* Content(...): status takes the column default
Content(url, original_text, cleaned_text) ==
    [url |-> url, original_text |-> original_text, cleaned_text |-> cleaned_text,
     status |-> "pending"]

AuditLog(content_id, action, text, n, s, user_id) ==
    [content_id |-> content_id, action |-> action,
     details |-> [text |-> text, n |-> n, s |-> s], user_id |-> user_id]

\* Suggestion(...) built from a suggestion dict; status takes the column default
Suggestion(content_id, d) ==
    [content_id |-> content_id,
     original_text |-> d.original_text,
     suggested_text |-> d.suggested_text,
     error_type |-> d.error_type,
     explanation |-> d.explanation,
     confidence_score |-> d.confidence_score,
     start_position |-> d.start_position,
     end_position |-> d.end_position,
     status |-> "pending"]

----------------------------------------------------------------------------
(* ContentAnalyzer: the local rule backend *)

\* a pattern that matches every pair of adjacent spaces, the pairs inside a
\* longer run too: C17 does not hold of it
DoubleSpaceStarts_EveryPair(text) ==
    {i \in 1..(Len(text) - 1) : text[i] = " " /\ text[i + 1] = " "}

\* 1-based starts of the matches of '  +': maximal runs of two or more spaces
DoubleSpaceStarts(text) ==
    {i \in 1..(Len(text) - 1) :
        /\ text[i] = " " /\ text[i + 1] = " "
        /\ (i = 1 \/ text[i - 1] # " ")}

\* 1-based index one past the run of spaces starting at i
RunEnd(text, i) ==
    CHOOSE j \in (i + 1)..(Len(text) + 1) :
        /\ \A k \in i..(j - 1) : text[k] = " "
        /\ (j = Len(text) + 1 \/ text[j] # " ")

\* 1-based starts of the matches of '[.!?][a-zA-Z]'
MissingSpaceStarts(text) ==
    {i \in 1..(Len(text) - 1) : IsEndPunct(text[i]) /\ IsLetter(text[i + 1])}

DoubleSpaceSuggestion(text, i) ==
    [original_text |-> SubSeq(text, i, RunEnd(text, i) - 1),
     suggested_text |-> <<" ">>,
     error_type |-> "punctuation",
     explanation |-> "Multiple spaces should be replaced with a single space",
     confidence_score |-> 8,
     start_position |-> i - 1,
     end_position |-> RunEnd(text, i) - 1]

MissingSpaceSuggestion(text, i) ==
    [original_text |-> SubSeq(text, i, i + 1),
     suggested_text |-> <<text[i], " ", text[i + 1]>>,
     error_type |-> "punctuation",
     explanation |-> "Missing space after punctuation",
     confidence_score |-> 7,
     start_position |-> i - 1,
     end_position |-> i + 1]

_check_basic_punctuation(text) ==
    LET ds == SetToSeq(DoubleSpaceStarts(text))
        ms == SetToSeq(MissingSpaceStarts(text))
    IN  [k \in 1..Len(ds) |-> DoubleSpaceSuggestion(text, ds[k])]
        \o [k \in 1..Len(ms) |-> MissingSpaceSuggestion(text, ms[k])]

----------------------------------------------------------------------------
(* ContentAnalyzer: the remote backend, chunked *)

api_client == settings.GEAI_API_KEY

max_chunk_size == (MAX_API_TOKENS * CHAR_PER_TOKEN * 8) \div 10

\* number of chunks: len(range(0, len(text), max_chunk_size))
NumChunks(text) == (Len(text) + max_chunk_size - 1) \div max_chunk_size

\* text_chunks[chunk_index], chunk_index counted from 0
text_chunk(text, chunk_index) ==
    PySlice(text, chunk_index * max_chunk_size, chunk_index * max_chunk_size + max_chunk_size)

chunk_offset(chunk_index) == chunk_index * max_chunk_size

required_fields ==
    {"original_text", "suggested_text", "error_type", "explanation",
     "confidence_score", "start_position", "end_position"}

\* a suggestion dict with one key removed
Without(d, key) == [f \in (DOMAIN d) \ {key} |-> d[f]]

RawSuggestion(original_text, suggested_text, start_position, end_position) ==
    [original_text |-> original_text, suggested_text |-> suggested_text,
     error_type |-> "grammar", explanation |-> "remote", confidence_score |-> 9,
     start_position |-> start_position, end_position |-> end_position]

\* the suggestion dicts the remote backend may put in its answer for a chunk:
\* a correct one, one that misquotes the chunk, one whose range is reversed, one
\* whose range ends after the chunk, and two that lack a key
RawSuggestions(chunk) ==
    {RawSuggestion(PySlice(chunk, 1, 2), <<"b">>, 1, 2),
     RawSuggestion(<<"x">>, <<>>, 0, 1),
     RawSuggestion(<<>>, <<>>, 2, 1),
     RawSuggestion(PySlice(chunk, 1, max_chunk_size + 1), <<"b">>, 1, max_chunk_size + 1),
     Without(RawSuggestion(PySlice(chunk, 0, 1), <<"a">>, 0, 1), "explanation"),
     Without(RawSuggestion(PySlice(chunk, 0, 1), <<"a">>, 0, 1), "start_position")}

RawLists(chunk) ==
    UNION {[1..n -> RawSuggestions(chunk)] : n \in 0..MaxProposed}

RECURSIVE CollectChunk(_, _, _)
\* the loop over chunk_suggestions: <<suggestions, raised>>, where raised tells
\* that the position adjustment hit a missing key (KeyError)
CollectChunk(acc, raw, offset) ==
    IF raw = <<>> THEN <<acc, FALSE>>
    ELSE LET d == Head(raw) IN
         IF ~ ({"start_position", "end_position"} \subseteq DOMAIN d)
         THEN <<acc, TRUE>>
         ELSE LET adj == [d EXCEPT !.start_position = @ + offset,
                                   !.end_position = @ + offset]
              IN  IF required_fields \subseteq DOMAIN adj
                  THEN CollectChunk(Append(acc, adj), Tail(raw), offset)
                  ELSE CollectChunk(acc, Tail(raw), offset)

_extract_suggestions_from_text(response_text, offset) == <<>>

\* the audit rows written by analyses and applies (the crawler's rows aside)
ReviewRows(al) == Cardinality({k \in 1..Len(al) : al[k].action # "crawled"})

----------------------------------------------------------------------------
(* ContentAnalyzer.analyze_content and its endpoint *)

IdleAnalyzer ==
    [pc |-> "idle", content_id |-> NULL, text |-> <<>>, chunk_index |-> 0,
     suggestions |-> <<>>]

BackendName == IF api_client THEN "Corporate API" ELSE "basic rules"

\* an analysis that first deletes the suggestions the content has: C39 does
\* not hold of it
InsertSuggestions_Replacing(ss, content_id, suggs) ==
    LET n == MaxId(DOMAIN ss)
        kept == {id \in DOMAIN ss : ss[id].content_id # content_id}
    IN  [id \in kept \cup ((n + 1)..(n + Len(suggs))) |->
            IF id \in kept THEN ss[id] ELSE Suggestion(content_id, suggs[id - n])]

\* the suggestions table after db.add(Suggestion(...)) for every dict of suggs
InsertSuggestions(ss, content_id, suggs) ==
    LET n == MaxId(DOMAIN ss)
    IN  [id \in (DOMAIN ss) \cup ((n + 1)..(n + Len(suggs))) |->
            IF id \in DOMAIN ss THEN ss[id] ELSE Suggestion(content_id, suggs[id - n])]

\* a commit that loses the status update: C10 does not hold of it
AnalyzedStore_StatusLost(cs, ss, al, content_id, suggs) ==
    [contents |-> cs,
     suggestions |-> InsertSuggestions(ss, content_id, suggs),
     audit_logs |-> Append(al, AuditLog(content_id, "analyzed", "Generated suggestions",
                                        Len(suggs), BackendName, "None"))]

\* what the commit of analyze_content writes: the suggestions, the status of
\* the content and one audit row, in one transaction
AnalyzedStore(cs, ss, al, content_id, suggs) ==
    [contents |-> [cs EXCEPT ![content_id].status = "analyzed"],
     suggestions |-> InsertSuggestions(ss, content_id, suggs),
     audit_logs |-> Append(al, AuditLog(content_id, "analyzed", "Generated suggestions",
                                        Len(suggs), BackendName, "None"))]

\* lines 50-80 of analyze_content: cs is the contents table as the call found it
SaveAnalysis(cs, content_id, suggs) ==
    /\ Cardinality(DOMAIN suggestions) + Len(suggs) <= MaxSuggestions
    /\ ReviewRows(audit_logs) < MaxAudit
    /\ analyzer' = IdleAnalyzer
    /\ UNCHANGED <<settings, crawl_jobs, crawler>>
    /\ \E commit_ok \in BOOLEAN :
         IF commit_ok
         THEN LET st == AnalyzedStore(cs, suggestions, audit_logs, content_id, suggs) IN
              /\ contents' = st.contents
              /\ suggestions' = st.suggestions
              /\ audit_logs' = st.audit_logs
              /\ resp' = Response("analyze", content_id, "returned", 200)
         ELSE /\ contents' = cs
              /\ UNCHANGED <<suggestions, audit_logs>>
              /\ resp' = Response("analyze", content_id, "raised", 500)

\* an endpoint that hands an unknown id on, with an analyzer that does not look
\* the content up either: C11 does not hold of it
ContentNotFound_Analyzed(content_id) ==
    /\ resp' = Response("analyze", content_id, "returned", 200)
    /\ audit_logs' = Append(audit_logs, AuditLog(content_id, "analyzed",
                                "Generated suggestions", 0, BackendName, "None"))
    /\ UNCHANGED <<settings, contents, suggestions, crawl_jobs, analyzer, crawler>>

\* lines 63-65 of the endpoint: no Content row has the id
ContentNotFound(content_id) ==
    /\ resp' = Response("analyze", content_id, "not found", 404)
    /\ UNCHANGED <<settings, store, analyzer, crawler>>

\* POST /content/analyze, down to the first suspension of the analyzer
analyze_content(content_id, force) ==
    /\ analyzer.pc = "idle"
    /\ IF content_id \notin DOMAIN contents
       THEN ContentNotFound(content_id)
       ELSE IF contents[content_id].status = "analyzed" /\ ~force
       THEN /\ resp' = Response("analyze", content_id, "already analyzed", 200)
            /\ UNCHANGED <<settings, store, analyzer, crawler>>
       ELSE \E reset_ok \in BOOLEAN :
            IF force /\ ~reset_ok
            THEN /\ resp' = Response("analyze", content_id, "raised", 500)
                 /\ UNCHANGED <<settings, store, analyzer, crawler>>
            ELSE LET cs == IF force
                           THEN [contents EXCEPT ![content_id].status = "pending"]
                           ELSE contents
                     text == cs[content_id].cleaned_text
                 IN  IF api_client /\ NumChunks(text) > 0
                     THEN /\ analyzer' = [pc |-> "await", content_id |-> content_id,
                                          text |-> text, chunk_index |-> 0,
                                          suggestions |-> <<>>]
                          /\ contents' = cs
                          /\ UNCHANGED <<settings, suggestions, audit_logs, crawl_jobs,
                                         crawler, resp>>
                     ELSE SaveAnalysis(cs, content_id,
                                       IF api_client THEN <<>>
                                       ELSE _check_basic_punctuation(text))

\* the rest of _analyze_with_corporate_api after chunk analyzer.chunk_index
AfterChunk(acc, abort) ==
    IF abort \/ analyzer.chunk_index + 1 >= NumChunks(analyzer.text)
    THEN SaveAnalysis(contents, analyzer.content_id, acc)
    ELSE /\ analyzer' = [analyzer EXCEPT !.chunk_index = @ + 1, !.suggestions = acc]
         /\ UNCHANGED <<settings, store, crawler, resp>>

\* lines 149-151: response.status_code != 200, the loop continues
api_status_error ==
    AfterChunk(analyzer.suggestions, FALSE)

\* lines 134-146: the post raises (the backend cannot be reached, or the
\* request times out); the except of lines 185-186 ends the loop
api_request_raises ==
    AfterChunk(analyzer.suggestions, TRUE)

\* lines 154-155: the body of the response is not JSON, or has no
\* choices[0].message.content; the except of lines 185-186 ends the loop
api_envelope_raises ==
    AfterChunk(analyzer.suggestions, TRUE)

\* a loop whose inner handler does not catch the JSONDecodeError, so that the
\* except of lines 185-186 ends the loop: C14 does not hold of it
api_content_not_json_Uncaught ==
    AfterChunk(analyzer.suggestions, TRUE)

\* lines 179-183: the content of the message is not JSON, the extraction
\* fallback gives the suggestions of the chunk
api_content_not_json ==
    AfterChunk(analyzer.suggestions
                   \o _extract_suggestions_from_text(
                          text_chunk(analyzer.text, analyzer.chunk_index),
                          chunk_offset(analyzer.chunk_index)), FALSE)

\* lines 162-177: the content of the message is JSON with the list raw under
\* the key suggestions
api_suggestions(raw) ==
    LET got == CollectChunk(analyzer.suggestions, raw, chunk_offset(analyzer.chunk_index))
    IN  AfterChunk(got[1], got[2])

\* the remote backend answers the request for the current chunk
api_response ==
    /\ analyzer.pc = "await"
    /\ \/ api_status_error
       \/ api_request_raises
       \/ api_envelope_raises
       \/ api_content_not_json
       \/ \E raw \in RawLists(text_chunk(analyzer.text, analyzer.chunk_index)) :
             api_suggestions(raw)

----------------------------------------------------------------------------
(* The suggestion lifecycle *)

\* lines 244-246 of apply_suggestion
new_text(original_text, start_pos, end_pos, suggested_text) ==
    PySlice(original_text, 0, start_pos) \o suggested_text
        \o PySlice(original_text, end_pos, Len(original_text))

\* whether apply_suggestion goes on to splice, given the row it loaded
ApplyProceeds(suggestion) == TRUE

\* an apply that writes the new text over the snapshot too: C26 does not hold
\* of it
AppliedContent_Snapshot(content, text) ==
    [content EXCEPT !.cleaned_text = text, !.original_text = text]

\* an apply that marks the content reviewed as well: C40 does not hold of it
AppliedContent_Reviewed(content, text) ==
    [content EXCEPT !.cleaned_text = text, !.status = "reviewed"]

\* line 248 of apply_suggestion: content.cleaned_text = new_text
AppliedContent(content, text) == [content EXCEPT !.cleaned_text = text]

\* ContentAnalyzer.apply_suggestion behind POST /suggestions/apply
apply_suggestion(suggestion_id, user_id) ==
    /\ UNCHANGED <<settings, crawl_jobs, analyzer, crawler>>
    /\ IF suggestion_id \notin DOMAIN suggestions
       THEN /\ resp' = Response("apply", suggestion_id, "False", 400)
            /\ UNCHANGED <<contents, suggestions, audit_logs>>
       ELSE LET suggestion == suggestions[suggestion_id]
                content_id == suggestion.content_id
            IN  IF content_id \notin DOMAIN contents \/ ~ApplyProceeds(suggestion)
                THEN /\ resp' = Response("apply", suggestion_id, "False", 400)
                     /\ UNCHANGED <<contents, suggestions, audit_logs>>
                ELSE LET text == new_text(contents[content_id].cleaned_text,
                                          suggestion.start_position,
                                          suggestion.end_position,
                                          suggestion.suggested_text)
                     IN  /\ Len(text) <= MaxTextLen
                         /\ ReviewRows(audit_logs) < MaxAudit
                         /\ \E commit_ok \in BOOLEAN :
                              IF commit_ok
                              THEN /\ contents' = [contents EXCEPT
                                                     ![content_id] = AppliedContent(@, text)]
                                   /\ suggestions' = [suggestions EXCEPT
                                                     ![suggestion_id].status = "applied"]
                                   /\ audit_logs' = Append(audit_logs,
                                        AuditLog(content_id, "suggestion_applied",
                                                 "Applied suggestion", suggestion_id, "",
                                                 user_id))
                                   /\ resp' = Response("apply", suggestion_id, "True", 200)
                              ELSE /\ resp' = Response("apply", suggestion_id, "False", 400)
                                   /\ UNCHANGED <<contents, suggestions, audit_logs>>

\* an approve that writes a status of Content into the Suggestion: C29 does not
\* hold of it
ApprovedStatus_Reviewed(status) == "reviewed"

\* the status approve_suggestion writes over the current one
ApprovedStatus(status) == "approved"

\* PUT /suggestions/{id}/approve
approve_suggestion(suggestion_id) ==
    /\ UNCHANGED <<settings, contents, audit_logs, crawl_jobs, analyzer, crawler>>
    /\ IF suggestion_id \notin DOMAIN suggestions
       THEN UNCHANGED <<suggestions, resp>>
       ELSE /\ suggestions' = [suggestions EXCEPT
                                 ![suggestion_id].status = ApprovedStatus(@)]
            /\ UNCHANGED resp

\* the status reject_suggestion writes over the current one
RejectedStatus(status) == "rejected"

\* PUT /suggestions/{id}/reject
reject_suggestion(suggestion_id) ==
    /\ UNCHANGED <<settings, contents, audit_logs, crawl_jobs, analyzer, crawler>>
    /\ IF suggestion_id \notin DOMAIN suggestions
       THEN UNCHANGED <<suggestions, resp>>
       ELSE /\ suggestions' = [suggestions EXCEPT
                                 ![suggestion_id].status = RejectedStatus(@)]
            /\ UNCHANGED resp

\* the number of suggestions with the status
CountStatus(status) ==
    Cardinality({i \in DOMAIN suggestions : suggestions[i].status = status})

\* GET /dashboard/stats: the counts of contents and of suggestions
get_dashboard_stats ==
    [total_content |-> Cardinality(DOMAIN contents),
     total_suggestions |-> Cardinality(DOMAIN suggestions),
     pending_suggestions |-> CountStatus("pending"),
     approved_suggestions |-> CountStatus("approved"),
     rejected_suggestions |-> CountStatus("rejected"),
     applied_suggestions |-> CountStatus("applied")]

\* a child row of a deleted Content: the relationships of Content declare no
\* cascade, so the row stays and its foreign key is set to NULL
Orphaned(row, content_id) ==
    IF row.content_id = content_id THEN [row EXCEPT !.content_id = NULL] ELSE row

\* DELETE /content/{content_id}
delete_content(content_id) ==
    /\ UNCHANGED <<settings, crawl_jobs, analyzer, crawler>>
    /\ IF content_id \notin DOMAIN contents
       THEN /\ resp' = Response("delete", content_id, "not found", 404)
            /\ UNCHANGED <<contents, suggestions, audit_logs>>
       ELSE \E commit_ok \in BOOLEAN :
            IF commit_ok
            THEN /\ contents' = [c \in (DOMAIN contents) \ {content_id} |-> contents[c]]
                 /\ suggestions' = [i \in DOMAIN suggestions |->
                                       Orphaned(suggestions[i], content_id)]
                 /\ audit_logs' = [k \in DOMAIN audit_logs |->
                                      Orphaned(audit_logs[k], content_id)]
                 /\ resp' = Response("delete", content_id, "deleted", 200)
            ELSE /\ resp' = Response("delete", content_id, "raised", 500)
                 /\ UNCHANGED <<contents, suggestions, audit_logs>>

----------------------------------------------------------------------------
(* The web the crawler walks *)

Url(netloc, path) == [netloc |-> netloc, path |-> path]

\* urljoin(base_url, href): an href without a host is relative to the base
urljoin(base_url, href) ==
    IF href.netloc = "" THEN Url(base_url.netloc, href.path) ELSE href

\* the paths the index page of site w links to: one more than links[:10] keeps
WidePaths == <<"/1", "/2", "/3", "/4", "/5", "/6", "/7", "/8", "/9", "/10", "/11">>

\* the anchors of each page, in document order: relative and absolute ones, a
\* repeated one and one that leaves the site; on site w an index page with
\* more anchors than a page's links are followed; on site c a page two links
\* away from the seed by one path and one link away by another
Hrefs(url) ==
    IF url = Url("a", "/1")
    THEN <<Url("", "/2"), Url("a", "/3"), Url("b", "/1"), Url("", "/2"), Url("", "/4")>>
    ELSE IF url = Url("a", "/2")
    THEN <<Url("", "/1"), Url("", "/3")>>
    ELSE IF url = Url("a", "/3")
    THEN <<Url("", "/2"), Url("", "/5")>>
    ELSE IF url = Url("w", "/0")
    THEN [k \in 1..Len(WidePaths) |-> Url("", WidePaths[k])]
    ELSE IF url = Url("c", "/0")
    THEN <<Url("", "/1"), Url("", "/2")>>
    ELSE IF url = Url("c", "/1")
    THEN <<Url("", "/2")>>
    ELSE IF url = Url("c", "/2")
    THEN <<Url("", "/3")>>
    ELSE <<>>

\* the visible text of each page as served
RawText(url) ==
    IF url = Url("a", "/1") THEN <<" ", "a", ".", "b", " ", " ">>
    ELSE IF url = Url("a", "/2") THEN <<"b", " ", " ", "a">>
    ELSE <<"b">>

RECURSIVE Collapse(_)
\* ' '.join(text.split()) on a text that has no leading space
Collapse(text) ==
    IF text = <<>> THEN <<>>
    ELSE IF Head(text) = " "
         THEN IF Tail(text) = <<>> \/ Head(Tail(text)) = " "
              THEN Collapse(Tail(text))
              ELSE <<" ">> \o Collapse(Tail(text))
         ELSE <<Head(text)>> \o Collapse(Tail(text))

RECURSIVE LStrip(_)
LStrip(text) ==
    IF text # <<>> /\ Head(text) = " " THEN LStrip(Tail(text)) ELSE text

\* ' '.join(text.split()): runs of whitespace to one space, the ends trimmed
Normalize(text) == Collapse(LStrip(text))

\* WebCrawler._extract_content on a page that parses
_extract_content(url) ==
    [title |-> url.path, original_text |-> Normalize(RawText(url)),
     cleaned_text |-> Normalize(RawText(url))]

\* a link extractor without the test of line 153, which keeps the targets of
\* every site: C19 does not hold of it
_extract_links_AnySite(base_url) ==
    {urljoin(base_url, Hrefs(base_url)[k]) : k \in 1..Len(Hrefs(base_url))}

\* the set built by _extract_links: the same-domain targets, duplicates removed
_extract_links(base_url) ==
    {urljoin(base_url, Hrefs(base_url)[k]) : k \in 1..Len(Hrefs(base_url))}
        \cap {u \in {urljoin(base_url, Hrefs(base_url)[k]) : k \in 1..Len(Hrefs(base_url))} :
                u.netloc = base_url.netloc}

\* the orders list(set(links)) may come in
Orderings(S) ==
    {q \in [1..Cardinality(S) -> S] : \A a, b \in 1..Cardinality(S) : a # b => q[a] # q[b]}

\* sets of up to this many links are taken in every order
MaxShuffled == 3

RECURSIVE Distinct(_)
\* the sequence without the repetitions of its elements
Distinct(q) ==
    IF q = <<>> THEN <<>>
    ELSE <<Head(q)>> \o Distinct(SelectSeq(Tail(q), LAMBDA x : x # Head(q)))

\* the links _extract_links keeps, in document order
DocOrder(base_url) ==
    Distinct(SelectSeq([k \in 1..Len(Hrefs(base_url)) |->
                            urljoin(base_url, Hrefs(base_url)[k])],
                       LAMBDA u : u \in _extract_links(base_url)))

\* the sequence q started r places later
Rotate(q, r) == [k \in 1..Len(q) |-> q[((k + r - 1) % Len(q)) + 1]]

\* the lists _extract_links may return for the page (line 156): every order of
\* a small set, and of a larger one the document order started at any place
LinkLists(base_url) ==
    IF Cardinality(_extract_links(base_url)) <= MaxShuffled
    THEN Orderings(_extract_links(base_url))
    ELSE {Rotate(DocOrder(base_url), r) : r \in 0..(Len(DocOrder(base_url)) - 1)}

----------------------------------------------------------------------------
(* WebCrawler and the crawl endpoints *)

\* jobs a run may start
MaxJobs == 1
\* settings.MAX_CRAWL_DEPTH, scaled down
MAX_CRAWL_DEPTH == 2
\* settings.MAX_PAGES_PER_DOMAIN, scaled down
MAX_PAGES_PER_DOMAIN == 4
\* links[:10]
LinksPerPage == 10

Seeds == {Url("a", "/1")}

\* the body of POST /crawl/start
CrawlRequest(url, max_depth, max_pages) ==
    [url |-> url, max_depth |-> max_depth, max_pages |-> max_pages]

\* a body that gives the url alone: the other fields take their defaults
UrlRequest(url) == CrawlRequest(url, 3, 100)

CrawlJob(url) ==
    [url |-> url, status |-> "pending", pages_crawled |-> 0, completed_at |-> "NULL",
     error_message |-> "NULL"]

\* the task of crawl_url(start_url, job_id) with its own WebCrawler and session
\* a start that awaits crawl_url instead of creating a task for it, so that
\* the seed has been fetched when the id is returned: C20 does not hold of it
NewCrawler_Awaited(request) ==
    [pc |-> "done", start_url |-> request.url, calls |-> <<>>,
     visited_urls |-> {request.url}, crawled_urls |-> <<>>,
     fetches |-> <<[url |-> request.url, depth |-> 0, delayed |-> FALSE]>>,
     session_ok |-> TRUE, request |-> request]

\* request is the body of the POST that started the job: start_crawl hands on
\* its url alone (crawl.py 37), and the task keeps the body here for reference
NewCrawler(request) ==
    [pc |-> "created", start_url |-> request.url, calls |-> <<>>, visited_urls |-> {},
     crawled_urls |-> <<>>, fetches |-> <<>>, session_ok |-> TRUE,
     request |-> request]

\* crawl.start_crawl -> start_crawl_job
start_crawl(request) ==
    /\ Cardinality(DOMAIN crawl_jobs) < MaxJobs
    /\ LET id == MaxId(DOMAIN crawl_jobs) + 1 IN
       /\ crawl_jobs' = crawl_jobs @@ (id :> CrawlJob(request.url))
       /\ crawler' = crawler @@ (id :> NewCrawler(request))
       /\ resp' = Response("start_crawl", id, "started", 200)
    /\ UNCHANGED <<settings, contents, suggestions, audit_logs, analyzer>>

\* a cancel endpoint without the status test of line 73: C4 does not hold of it
CancelledStatus_Unchecked(status) == "cancelled"

\* the status the cancel endpoint leaves, given the one it read
CancelledStatus(status) ==
    IF status \in {"pending", "running"} THEN "cancelled" ELSE status

\* crawl.cancel_crawl_job
cancel_crawl_job(job_id) ==
    /\ UNCHANGED <<settings, contents, suggestions, audit_logs, analyzer, crawler>>
    /\ IF job_id \notin DOMAIN crawl_jobs
       THEN /\ resp' = Response("cancel", job_id, "not found", 404)
            /\ UNCHANGED crawl_jobs
       ELSE /\ crawl_jobs' = [crawl_jobs EXCEPT ![job_id].status = CancelledStatus(@)]
            /\ resp' = IF crawl_jobs[job_id].status \in {"pending", "running"}
                       THEN Response("cancel", job_id, "cancelled", 200)
                       ELSE Response("cancel", job_id, "cannot cancel", 400)

\* the opening test without the page cap: C6 does not hold of it
ReturnsAtOnce_NoPageCap(depth, crawled_urls, url, visited_urls) ==
    \/ depth > MAX_CRAWL_DEPTH
    \/ url \in visited_urls

\* the opening test without the visited set: C30 does not hold of it
ReturnsAtOnce_NoVisited(depth, crawled_urls, url, visited_urls) ==
    \/ depth > MAX_CRAWL_DEPTH
    \/ Len(crawled_urls) >= MAX_PAGES_PER_DOMAIN

\* the test that opens _crawl_recursive (lines 57-60)
ReturnsAtOnce(depth, crawled_urls, url, visited_urls) ==
    \/ depth > MAX_CRAWL_DEPTH
    \/ Len(crawled_urls) >= MAX_PAGES_PER_DOMAIN
    \/ url \in visited_urls

\* a crawler that never waits between requests: C31 does not hold of it
Delays_Never(crawled_urls) == FALSE

\* the test of line 66: the delay is awaited when a page has been collected
Delays(crawled_urls) == crawled_urls # <<>>

RECURSIVE RunToAwait(_)
\* the task t runs on until it awaits: the calls of _crawl_recursive that return
\* at once are made and dropped; the first that does not marks its url visited
\* and awaits the delay (line 67) or, when nothing is crawled yet, the request
\* (line 69); when no call is left the recursion has returned to crawl_url.
\* The pending calls are a stack: the call on top is the next the recursion makes.
RunToAwait(t) ==
    IF t.calls = <<>> THEN [t EXCEPT !.pc = "closing"]
    ELSE LET url == Head(t.calls).url
             depth == Head(t.calls).depth
         IN  IF ReturnsAtOnce(depth, t.crawled_urls, url, t.visited_urls)
             THEN RunToAwait([t EXCEPT !.calls = Tail(t.calls)])
             ELSE IF Delays(t.crawled_urls)
             THEN [t EXCEPT !.visited_urls = @ \cup {url}, !.pc = "sleeping"]
             ELSE [t EXCEPT !.visited_urls = @ \cup {url}, !.pc = "fetching",
                            !.fetches = Append(@, [url |-> url, depth |-> depth,
                                                   delayed |-> FALSE])]

\* lines 28-35 of crawl_url: the task starts, marks the job running and calls
\* _crawl_recursive on the start url at depth 0
crawl_url_begin(job_id) ==
    /\ job_id \in DOMAIN crawler
    /\ crawler[job_id].pc = "created"
    /\ UNCHANGED <<settings, contents, suggestions, audit_logs, analyzer, resp>>
    /\ \E commit_ok \in BOOLEAN :
         IF commit_ok
         THEN /\ crawl_jobs' = [crawl_jobs EXCEPT ![job_id].status = "running"]
              /\ crawler' = [crawler EXCEPT ![job_id] =
                    RunToAwait([@ EXCEPT
                        !.calls = <<[url |-> crawler[job_id].start_url, depth |-> 0]>>])]
         ELSE \* the commit raises; so does the commit of the handler (line 49)
              /\ crawler' = [crawler EXCEPT ![job_id].pc = "raised",
                                            ![job_id].session_ok = FALSE]
              /\ UNCHANGED crawl_jobs

\* asyncio.sleep(self.delay) returns and the request is sent (lines 67-69)
crawl_delay_over(job_id) ==
    /\ job_id \in DOMAIN crawler
    /\ crawler[job_id].pc = "sleeping"
    /\ UNCHANGED <<settings, store, analyzer, resp>>
    /\ crawler' = [crawler EXCEPT
            ![job_id].pc = "fetching",
            ![job_id].fetches = Append(@, [url |-> Head(crawler[job_id].calls).url,
                                           depth |-> Head(crawler[job_id].calls).depth,
                                           delayed |-> TRUE])]

FetchOutcomes == {"200", "404", "error", "unparseable"}

\* an expansion that follows every link of the page: C32 does not hold of it
ChildCalls_Uncapped(links, depth) ==
    IF depth < MAX_CRAWL_DEPTH
    THEN [k \in 1..Len(links) |-> [url |-> links[k], depth |-> depth + 1]]
    ELSE <<>>

\* the calls line 98-102 make for a page crawled at depth
ChildCalls(links, depth) ==
    IF depth < MAX_CRAWL_DEPTH
    THEN [k \in 1..Min(Len(links), LinksPerPage) |-> [url |-> links[k], depth |-> depth + 1]]
    ELSE <<>>

\* a contents table without the unique index on url: C25 does not hold of it
UrlTaken_NoIndex(url) == FALSE

\* Content.url is unique: the insert of a second row with the url is refused
UrlTaken(url) == \E c \in DOMAIN contents : contents[c].url = url

\* a crawler whose loop over the links stands outside the block of the stored
\* page, so that a page that was not stored is expanded too: C36 does not hold
\* of it
FollowsLinks_Always(stored) == TRUE

\* the loop over the links (lines 97-102) stands inside "if content_data:",
\* after the commit of line 93: it is reached when the page was stored
FollowsLinks(stored) == stored

\* the request of the call on top answers (lines 69-105), and the task runs on
\* to its next await
_crawl_recursive(job_id) ==
    /\ job_id \in DOMAIN crawler
    /\ crawler[job_id].pc = "fetching"
    /\ UNCHANGED <<settings, suggestions, analyzer, resp, crawl_jobs>>
    /\ LET t == crawler[job_id]
           url == Head(t.calls).url
           depth == Head(t.calls).depth
       IN  \E outcome \in FetchOutcomes, commit_ok \in BOOLEAN :
             LET \* status 200, content extracted and the commit of line 93 done
                 stored == /\ outcome = "200"
                           /\ t.session_ok
                           /\ commit_ok
                           /\ ~UrlTaken(url)
                 \* the commit of line 93 raises: caught at line 104
                 refused == outcome = "200" /\ ~stored
                 page == _extract_content(url)
             IN  /\ IF stored
                    THEN /\ contents' = contents @@
                                (MaxId(DOMAIN contents) + 1 :>
                                    Content(url, page.original_text, page.cleaned_text))
                         \* content.id is read at line 87, before any flush
                         \* has given the new row its id: it is None
                         /\ audit_logs' = Append(audit_logs,
                                AuditLog(NULL, "crawled", "Successfully crawled", 0,
                                         url.path, "None"))
                    ELSE UNCHANGED <<contents, audit_logs>>
                 /\ \E links \in (IF FollowsLinks(stored) THEN LinkLists(url)
                                                           ELSE {<<>>}) :
                       crawler' = [crawler EXCEPT ![job_id] =
                         RunToAwait([t EXCEPT
                            !.session_ok = IF refused THEN FALSE ELSE @,
                            !.crawled_urls = IF stored THEN Append(@, url) ELSE @,
                            !.calls = ChildCalls(links, depth) \o Tail(t.calls)])]

\* a completion that does not stamp the job: C23 does not hold of it
CompletedJob_Unstamped(job, crawled_urls) ==
    [job EXCEPT !.status = "completed", !.pages_crawled = Len(crawled_urls)]

\* lines 39-41 of crawl_url
CompletedJob(job, crawled_urls) ==
    [job EXCEPT !.status = "completed", !.pages_crawled = Len(crawled_urls),
                !.completed_at = "now"]

\* lines 36-52 of crawl_url for one outcome of leaving the client session
\* (close_ok) and of the database's answer to the commit (commit_ok)
crawl_url_leaves(job_id, close_ok, commit_ok) ==
    /\ job_id \in DOMAIN crawler
    /\ crawler[job_id].pc = "closing"
    /\ UNCHANGED <<settings, contents, suggestions, audit_logs, analyzer, resp>>
    /\ LET t == crawler[job_id] IN
         IF close_ok /\ t.session_ok /\ commit_ok
         THEN /\ crawl_jobs' = [crawl_jobs EXCEPT
                    ![job_id] = CompletedJob(@, t.crawled_urls)]
              /\ crawler' = [crawler EXCEPT ![job_id].pc = "done"]
         ELSE IF ~close_ok /\ t.session_ok /\ commit_ok
         THEN \* leaving the client session raises: the handler of line 44
              /\ crawl_jobs' = [crawl_jobs EXCEPT
                    ![job_id].status = "failed",
                    ![job_id].error_message = "error"]
              /\ crawler' = [crawler EXCEPT ![job_id].pc = "raised"]
         ELSE \* a commit raises, and so does the commit of the handler
              /\ crawler' = [crawler EXCEPT ![job_id].pc = "raised",
                                            ![job_id].session_ok = FALSE]
              /\ UNCHANGED crawl_jobs

\* lines 36-52 of crawl_url: the recursion has returned and the client session
\* is left
crawl_url_end(job_id) ==
    \E close_ok \in BOOLEAN, commit_ok \in BOOLEAN :
        crawl_url_leaves(job_id, close_ok, commit_ok)

----------------------------------------------------------------------------
(* The review specification: a store holding crawled pages *)

\* cleaned_text of the crawled pages: whitespace-normalised by _extract_content
InitialTexts == {<<"a", ".", "b">>, <<".", "a", ".", "b">>}

UserIds == {"reviewer"}

\* the stores the review starts from: the pages a crawl has persisted
InitialStores ==
    {(1 :> Content(Url("a", "/1"), t1, t1)) @@ (2 :> Content(Url("a", "/2"), <<"b">>, <<"b">>))
        : t1 \in InitialTexts}

CrawledAudit(cs) ==
    [k \in 1..Cardinality(DOMAIN cs) |->
        AuditLog(NULL, "crawled", "Successfully crawled", 0, cs[k].url.path, "None")]

\* a store of crawled pages, no request in flight, under the configuration key
InitStore(key, stores) ==
    \E cs \in stores :
        /\ settings = [GEAI_API_KEY |-> key]
        /\ contents = cs
        /\ suggestions = <<>>
        /\ audit_logs = CrawledAudit(cs)
        /\ crawl_jobs = <<>>
        /\ crawler = <<>>
        /\ analyzer = IdleAnalyzer
        /\ resp = NoResponse

\* the settings of config.py: no GEAI_API_KEY, so the local backend analyzes
Init == InitStore(FALSE, InitialStores)

\* the ids a request may name: every row of the table and one id that names none
RequestIds(table) == (DOMAIN table) \cup {MaxId(DOMAIN table) + 1}

Next ==
    \/ \E c \in RequestIds(contents), force \in BOOLEAN : analyze_content(c, force)
    \/ \E i \in RequestIds(suggestions), u \in UserIds : apply_suggestion(i, u)
    \/ \E i \in RequestIds(suggestions) : approve_suggestion(i)
    \/ \E i \in RequestIds(suggestions) : reject_suggestion(i)

Spec == Init /\ [][Next]_vars

----------------------------------------------------------------------------
(* The review specification with the remote backend configured *)

\* one crawled page; settings carries a GEAI_API_KEY
InitRemote ==
    InitStore(TRUE, {(1 :> Content(Url("a", "/1"), t1, t1)) : t1 \in InitialTexts})

NextRemote ==
    \/ \E c \in RequestIds(contents), force \in BOOLEAN : analyze_content(c, force)
    \/ api_response
    \/ \E i \in RequestIds(suggestions), u \in UserIds : apply_suggestion(i, u)
    \/ \E i \in RequestIds(suggestions) : approve_suggestion(i)
    \/ \E i \in RequestIds(suggestions) : reject_suggestion(i)

SpecRemote == InitRemote /\ [][NextRemote]_vars

----------------------------------------------------------------------------
(* The review with the deletion of contents *)

NextStore ==
    \/ Next
    \/ \E c \in RequestIds(contents) : delete_content(c)

SpecStore == Init /\ [][NextStore]_vars

----------------------------------------------------------------------------
(* The local rule backend on arbitrary text *)

MaxRuleLen == 4

\* a letter of each case, the three marks of the pattern, the space and a digit
RuleAlphabet == {"a", "W", ".", "!", "?", " ", "1"}

RuleTexts == UNION {[1..n -> RuleAlphabet] : n \in 1..MaxRuleLen}

\* one content whose text is any text, no remote backend configured
InitRules == InitStore(FALSE, {(1 :> Content(Url("a", "/1"), t, t)) : t \in RuleTexts})

NextRules ==
    \E c \in RequestIds(contents), force \in BOOLEAN : analyze_content(c, force)

SpecRules == InitRules /\ [][NextRules]_vars

----------------------------------------------------------------------------
(* The analyzer alone, with either backend *)

InitAnalyze == Init \/ InitRemote

NextAnalyze ==
    \/ \E c \in RequestIds(contents), force \in BOOLEAN : analyze_content(c, force)
    \/ api_response

SpecAnalyze == InitAnalyze /\ [][NextAnalyze]_vars

----------------------------------------------------------------------------
(* The crawl specification: an empty store *)

InitCrawl ==
    /\ settings = [GEAI_API_KEY |-> FALSE]
    /\ contents = <<>>
    /\ suggestions = <<>>
    /\ audit_logs = <<>>
    /\ crawl_jobs = <<>>
    /\ crawler = <<>>
    /\ analyzer = IdleAnalyzer
    /\ resp = NoResponse

NextCrawl ==
    \/ \E url \in Seeds : start_crawl(UrlRequest(url))
    \/ \E j \in RequestIds(crawl_jobs) : cancel_crawl_job(j)
    \/ \E j \in DOMAIN crawler : crawl_url_begin(j)
    \/ \E j \in DOMAIN crawler : crawl_delay_over(j)
    \/ \E j \in DOMAIN crawler : _crawl_recursive(j)
    \/ \E j \in DOMAIN crawler : crawl_url_end(j)

SpecCrawl == InitCrawl /\ [][NextCrawl]_vars

----------------------------------------------------------------------------
(* Two crawl jobs of the same site, run as concurrent tasks *)

\* the state after two calls of start_crawl for the same seed
InitTwoJobs ==
    /\ settings = [GEAI_API_KEY |-> FALSE]
    /\ contents = <<>>
    /\ suggestions = <<>>
    /\ audit_logs = <<>>
    /\ \E url \in Seeds :
          /\ crawl_jobs = (1 :> CrawlJob(url)) @@ (2 :> CrawlJob(url))
          /\ crawler = (1 :> NewCrawler(UrlRequest(url))) @@ (2 :> NewCrawler(UrlRequest(url)))
    /\ analyzer = IdleAnalyzer
    /\ resp = Response("start_crawl", 2, "started", 200)

NextTwoJobs ==
    \/ \E j \in DOMAIN crawler : crawl_url_begin(j)
    \/ \E j \in DOMAIN crawler : crawl_delay_over(j)
    \/ \E j \in DOMAIN crawler : _crawl_recursive(j)
    \/ \E j \in DOMAIN crawler : crawl_url_end(j)

SpecTwoJobs == InitTwoJobs /\ [][NextTwoJobs]_vars

----------------------------------------------------------------------------
(* One crawl job of one of the sites, started *)

\* the seeds of the three sites
SiteSeeds == Seeds \cup {Url("w", "/0"), Url("c", "/0")}

InitSites ==
    /\ settings = [GEAI_API_KEY |-> FALSE]
    /\ contents = <<>>
    /\ suggestions = <<>>
    /\ audit_logs = <<>>
    /\ \E url \in SiteSeeds :
          /\ crawl_jobs = (1 :> CrawlJob(url))
          /\ crawler = (1 :> NewCrawler(UrlRequest(url)))
    /\ analyzer = IdleAnalyzer
    /\ resp = Response("start_crawl", 1, "started", 200)

NextSites ==
    \/ \E j \in DOMAIN crawler : crawl_url_begin(j)
    \/ \E j \in DOMAIN crawler : crawl_delay_over(j)
    \/ \E j \in DOMAIN crawler : _crawl_recursive(j)
    \/ \E j \in DOMAIN crawler : crawl_url_end(j)

SpecSites == InitSites /\ [][NextSites]_vars

\* the event loop runs a task that is ready: a created task is started, the
\* delay elapses, a request answers or times out (timeout=30, line 69), and
\* the task goes on from each
SpecSitesFair == SpecSites /\ WF_vars(NextSites)

----------------------------------------------------------------------------
(* One crawl job started with bounds in the request *)

\* the bodies a client sends: bounds up to those of the settings
CrawlRequests ==
    {CrawlRequest(url, max_depth, max_pages) :
        url \in Seeds, max_depth \in 0..MAX_CRAWL_DEPTH,
        max_pages \in 1..MAX_PAGES_PER_DOMAIN}

NextRequests ==
    \/ \E request \in CrawlRequests : start_crawl(request)
    \/ \E j \in DOMAIN crawler : crawl_url_begin(j)
    \/ \E j \in DOMAIN crawler : crawl_delay_over(j)
    \/ \E j \in DOMAIN crawler : _crawl_recursive(j)
    \/ \E j \in DOMAIN crawler : crawl_url_end(j)

SpecRequests == InitCrawl /\ [][NextRequests]_vars

----------------------------------------------------------------------------
(* Properties of the suggestion lifecycle (specification Spec) *)

\* the audit rows that record a successful apply of suggestion i
AppliedRows(i) ==
    {k \in 1..Len(audit_logs) :
        /\ audit_logs[k].action = "suggestion_applied"
        /\ audit_logs[k].details.n = i}

\* the call apply(i) returns in this step
ApplyStep(i) == \E u \in UserIds : apply_suggestion(i, u)

\* the call apply(i) returns True in this step
ApplySucceeds(i) ==
    /\ i \in DOMAIN suggestions
    /\ ApplyStep(i)
    /\ resp'.ret = "True"

\* the text of the content suggestion i points at
TextOf(i) == contents[suggestions[i].content_id].cleaned_text

\* C1: apply succeeds at most once per suggestion id: once an apply of a
\* suggestion has succeeded, every later apply of it returns false and leaves
\* the cleaned_text, the suggestion's status and the audit log as they were.
C1_ApplyAtMostOnce ==
    [][\A i \in DOMAIN suggestions :
          (AppliedRows(i) # {} /\ ApplyStep(i))
              => /\ resp'.ret = "False"
                 /\ UNCHANGED <<contents, suggestions, audit_logs>>]_vars

\* a suggestion has been applied twice, and the text edited twice
C1_AppliedTwice ==
    \E i \in DOMAIN suggestions : Cardinality(AppliedRows(i)) >= 2

\* the status changes the lifecycle allows
SuggestionMoves ==
    {<<"pending", "approved">>, <<"pending", "rejected">>, <<"approved", "rejected">>,
     <<"pending", "applied">>, <<"approved", "applied">>}

\* C2: a suggestion's status starts at pending and changes only along
\* pending -> approved, pending -> rejected, approved -> rejected,
\* pending -> applied or approved -> applied; applied and rejected are final.
C2_StatusLifecycle ==
    [][/\ \A i \in DOMAIN suggestions :
             \/ suggestions'[i].status = suggestions[i].status
             \/ <<suggestions[i].status, suggestions'[i].status>> \in SuggestionMoves
       /\ \A i \in (DOMAIN suggestions') \ (DOMAIN suggestions) :
             suggestions'[i].status = "pending"]_vars

\* the text t with the characters of [start, end) replaced by s: the range is
\* what of [start, end) lies in t, and is empty unless start < end
ReplaceRange(t, start, end, s) ==
    LET lo == Max(0, Min(start, Len(t)))
        hi == Max(lo, Min(end, Len(t)))
    IN  SubSeq(t, 1, lo) \o s \o SubSeq(t, hi + 1, Len(t))

UnsafeSplice(i) ==
    \/ suggestions[i].content_id \notin DOMAIN contents
    \/ suggestions[i].start_position < 0
    \/ suggestions[i].start_position > suggestions[i].end_position
    \/ suggestions[i].end_position > Len(TextOf(i))

C9_ReplacesOriginalText ==
    [][\A i \in DOMAIN suggestions :
          (AppliedRows(i) = {} /\ ApplySucceeds(i))
              => PySlice(TextOf(i), suggestions[i].start_position,
                         suggestions[i].end_position) = suggestions[i].original_text]_vars

\* the rows a step adds to the suggestions table
InsertedIds == (DOMAIN suggestions') \ (DOMAIN suggestions)

\* a step shows some part of the result of an analysis: suggestion rows, an
\* "analyzed" audit row, or a status turned to analyzed
AnalysisVisible ==
    \/ InsertedIds # {}
    \/ /\ Len(audit_logs') > Len(audit_logs)
       /\ audit_logs'[Len(audit_logs')].action = "analyzed"
    \/ \E c \in DOMAIN contents :
          contents[c].status # "analyzed" /\ contents'[c].status = "analyzed"

\* a step shows the whole result of the analysis of content c
AnalysisWhole(c) ==
    /\ contents'[c].status = "analyzed"
    /\ \A d \in (DOMAIN contents) \ {c} : contents'[d] = contents[d]
    /\ \A i \in InsertedIds :
          suggestions'[i].content_id = c /\ suggestions'[i].status = "pending"
    /\ \A i \in DOMAIN suggestions : suggestions'[i] = suggestions[i]
    /\ api_client \/
          Cardinality(InsertedIds) = Len(_check_basic_punctuation(contents[c].cleaned_text))
    /\ Len(audit_logs') = Len(audit_logs) + 1
    /\ SubSeq(audit_logs', 1, Len(audit_logs)) = audit_logs
    /\ audit_logs'[Len(audit_logs')].action = "analyzed"
    /\ audit_logs'[Len(audit_logs')].content_id = c
    /\ audit_logs'[Len(audit_logs')].details.n = Cardinality(InsertedIds)
    /\ resp' = Response("analyze", c, "returned", 200)

\* C10: analyze persists its result as one unit: a step that shows any part of
\* it shows all of it (every suggestion, the status analyzed, exactly one
\* "analyzed" audit row) and returns; an analysis that raises shows none of it.
C10_AnalysisAtomic ==
    [][AnalysisVisible => \E c \in DOMAIN contents : AnalysisWhole(c)]_vars

\* an analysis has persisted suggestions, and a later forced analysis of the
\* same content has raised and left them, and the audit log, as they were
C10_PersistedThenRaised ==
    /\ resp.op = "analyze" /\ resp.ret = "raised"
    /\ \E i \in DOMAIN suggestions : suggestions[i].content_id = resp.arg
    /\ Cardinality({k \in 1..Len(audit_logs) :
            audit_logs[k].action = "analyzed" /\ audit_logs[k].content_id = resp.arg}) = 1
    /\ contents[resp.arg].status = "pending"

----------------------------------------------------------------------------
(* Properties of the crawl (specification SpecCrawl) *)

\* the status changes the job state machine allows
JobMoves ==
    {<<"pending", "running">>, <<"pending", "cancelled">>, <<"running", "completed">>,
     <<"running", "failed">>, <<"running", "cancelled">>}

\* C3: with cancel interleaving with the crawl task, a job's status changes
\* only along pending -> running -> {completed, failed, cancelled} or
\* pending -> cancelled; completed, failed and cancelled are final.
C3_JobLifecycle ==
    [][\A j \in DOMAIN crawl_jobs :
          \/ crawl_jobs'[j].status = crawl_jobs[j].status
          \/ <<crawl_jobs[j].status, crawl_jobs'[j].status>> \in JobMoves]_vars

\* C4: cancelling a pending or running job sets its status to cancelled;
\* cancelling a completed or failed job is rejected and leaves the job as it
\* was; cancelling an unknown id answers not-found and changes nothing.
C4_CancelOutcome ==
    [][\A j \in RequestIds(crawl_jobs) :
          cancel_crawl_job(j)
              => IF j \notin DOMAIN crawl_jobs
                 THEN resp'.code = 404 /\ UNCHANGED store
                 ELSE IF crawl_jobs[j].status \in {"pending", "running"}
                 THEN /\ crawl_jobs' = [crawl_jobs EXCEPT ![j].status = "cancelled"]
                      /\ resp'.code = 200
                 ELSE /\ resp'.code = 400
                      /\ UNCHANGED store]_vars

\* the cancel of a job that completed with pages has been rejected
C4_CancelRejected ==
    /\ resp.op = "cancel" /\ resp.code = 400
    /\ crawl_jobs[resp.arg].status = "completed"
    /\ crawl_jobs[resp.arg].pages_crawled > 0

\* C5: once a job is cancelled its crawl task starts no further fetch and
\* persists no further Content row.
C5_CancelStopsCrawl ==
    [][\A j \in DOMAIN crawl_jobs :
          crawl_jobs[j].status = "cancelled"
              => /\ crawler'[j].fetches = crawler[j].fetches
                 /\ crawler'[j].crawled_urls = crawler[j].crawled_urls]_vars

\* C6: at every point of a crawl the pages the job has collected, and the
\* pages_crawled it records, are at most max_pages, and every url is fetched
\* at a depth of at most max_depth, the seed at depth 0.
C6_CrawlBounds ==
    \A j \in DOMAIN crawler :
        /\ Len(crawler[j].crawled_urls) <= MAX_PAGES_PER_DOMAIN
        /\ crawl_jobs[j].pages_crawled <= MAX_PAGES_PER_DOMAIN
        /\ \A k \in 1..Len(crawler[j].fetches) :
              /\ crawler[j].fetches[k].depth <= MAX_CRAWL_DEPTH
              /\ k = 1 => crawler[j].fetches[k].depth = 0

\* a job has completed with max_pages pages, one of them fetched at max_depth
C6_CapReached ==
    \E j \in DOMAIN crawler :
        /\ crawl_jobs[j].status = "completed"
        /\ crawl_jobs[j].pages_crawled = MAX_PAGES_PER_DOMAIN
        /\ \E k \in 1..Len(crawler[j].fetches) :
              crawler[j].fetches[k].depth = MAX_CRAWL_DEPTH

----------------------------------------------------------------------------
(* Properties of the local rule backend *)

\* the ranges [s, e) of the maximal runs of two or more spaces of text
SpaceRuns(text) ==
    {r \in (0..Len(text)) \X (0..Len(text)) :
        /\ r[2] - r[1] >= 2
        /\ \A k \in (r[1] + 1)..r[2] : text[k] = " "
        /\ (r[1] = 0 \/ text[r[1]] # " ")
        /\ (r[2] = Len(text) \/ text[r[2] + 1] # " ")}

\* the offsets of the '.', '!' and '?' of text that a letter follows
PunctBeforeLetter(text) ==
    {p \in 0..(Len(text) - 2) :
        text[p + 1] \in {".", "!", "?"} /\ text[p + 2] \in {"a", "W"}}

\* what the claim has the local rule backend return for text
ExpectedRules(text) ==
    {[start_position |-> r[1], end_position |-> r[2],
      original_text |-> [k \in 1..(r[2] - r[1]) |-> " "],
      suggested_text |-> <<" ">>, error_type |-> "punctuation"] : r \in SpaceRuns(text)}
    \cup
    {[start_position |-> p, end_position |-> p + 2,
      original_text |-> <<text[p + 1], text[p + 2]>>,
      suggested_text |-> <<text[p + 1], " ", text[p + 2]>>,
      error_type |-> "punctuation"] : p \in PunctBeforeLetter(text)}

\* the rows the step inserted, without their ids
InsertedRules ==
    {[start_position |-> suggestions'[i].start_position,
      end_position |-> suggestions'[i].end_position,
      original_text |-> suggestions'[i].original_text,
      suggested_text |-> suggestions'[i].suggested_text,
      error_type |-> suggestions'[i].error_type] : i \in InsertedIds}

\* C17: the local rule backend returns one punctuation suggestion for every
\* maximal run of two or more spaces, replacing the run with one space, and one
\* for every '.', '!' or '?' that a letter follows, inserting a space between
\* the two, and nothing else.
C17_LocalRules ==
    [][\A c \in DOMAIN contents, force \in BOOLEAN :
          (/\ ~ api_client /\ analyze_content(c, force)
           /\ resp' = Response("analyze", c, "returned", 200)) =>
             /\ InsertedRules = ExpectedRules(contents[c].cleaned_text)
             /\ Cardinality(InsertedIds)
                   = Cardinality(ExpectedRules(contents[c].cleaned_text))]_vars

\* the text ".W" followed by two spaces has been analyzed: one suggestion
\* replaces the run of spaces, one inserts the space into ".W"
C17_BothRulesFired ==
    /\ 1 \in DOMAIN contents
    /\ contents[1].cleaned_text = <<".", "W", " ", " ">>
    /\ contents[1].status = "analyzed"
    /\ DOMAIN suggestions = {1, 2}
    /\ suggestions[1].original_text = <<" ", " ">>
    /\ suggestions[1].suggested_text = <<" ">>
    /\ suggestions[1].start_position = 2 /\ suggestions[1].end_position = 4
    /\ suggestions[2].original_text = <<".", "W">>
    /\ suggestions[2].suggested_text = <<".", " ", "W">>
    /\ suggestions[2].start_position = 0 /\ suggestions[2].end_position = 2

----------------------------------------------------------------------------
(* Properties of the analyzer *)

\* C11: analyze of an id that resolves to no Content row fails with not-found
\* and creates no Suggestion, no AuditLog and changes no Content status.
C11_AnalyzeNotFound ==
    [][\A c \in RequestIds(contents), force \in BOOLEAN :
          (c \notin DOMAIN contents /\ analyze_content(c, force))
              => /\ resp' = Response("analyze", c, "not found", 404)
                 /\ UNCHANGED <<contents, suggestions, audit_logs>>]_vars

\* an analyze of an unknown id has answered not-found, after an analysis of a
\* known one persisted suggestions
C11_NotFoundAnswered ==
    /\ resp.op = "analyze" /\ resp.code = 404
    /\ resp.arg \notin DOMAIN contents
    /\ suggestions # <<>>

\* the text of the content under analysis, as the analyzer read it
AnalyzedText(c) ==
    IF analyzer.pc = "await" THEN analyzer.text ELSE contents[c].cleaned_text

\* the suggestions the step has collected from the chunk it handled, as they
\* are kept for the next chunk or as the rows the step inserted
CollectedNow ==
    IF analyzer'.pc = "await"
    THEN SubSeq(analyzer'.suggestions, Len(analyzer.suggestions) + 1,
                Len(analyzer'.suggestions))
    ELSE LET first == MaxId(DOMAIN suggestions) + Len(analyzer.suggestions)
         IN  [k \in 1..(MaxId(DOMAIN suggestions') - first) |-> suggestions'[first + k]]

RECURSIVE JoinChunks(_, _)
\* the chunks of text from chunk k on, one after the other
JoinChunks(text, k) ==
    IF k >= NumChunks(text) THEN <<>>
    ELSE text_chunk(text, k) \o JoinChunks(text, k + 1)

\* the raw suggestions that have every required field
Complete(raw) == SelectSeq(raw, LAMBDA d : required_fields \subseteq DOMAIN d)

AnalysisGoesOn ==
    IF analyzer.chunk_index + 1 < NumChunks(analyzer.text)
    THEN analyzer'.pc = "await" /\ analyzer'.chunk_index = analyzer.chunk_index + 1
    ELSE analyzer'.pc = "idle" /\ resp'.op = "analyze"

AnalysisCommitted(c, n) ==
    /\ resp' = Response("analyze", c, "returned", 200)
    /\ contents'[c].status = "analyzed"
    /\ Cardinality(InsertedIds) = n

\* the step has ended an analysis of content c whose commit failed
CommitFailed(c) ==
    /\ resp' = Response("analyze", c, "raised", 500)
    /\ UNCHANGED <<suggestions, audit_logs>>

InsertedAre(suggs) ==
    /\ Cardinality(InsertedIds) = Len(suggs)
    /\ \A k \in 1..Len(suggs) :
          LET row == suggestions'[MaxId(DOMAIN suggestions) + k]
          IN  /\ row.start_position = suggs[k].start_position
              /\ row.end_position = suggs[k].end_position
              /\ row.original_text = suggs[k].original_text
              /\ row.suggested_text = suggs[k].suggested_text

\* the step neither raises nor stops the analysis for another reason than a
\* failed commit
BackendFailureAbsorbed ==
    \/ analyzer'.pc = "await"
    \/ CommitFailed(analyzer.content_id)
    \/ /\ resp' = Response("analyze", analyzer.content_id, "returned", 200)
       /\ contents'[analyzer.content_id].status = "analyzed"

BackendFailureNeverRaises ==
    [][/\ \A c \in DOMAIN contents, force \in BOOLEAN :
            (~ api_client /\ analyze_content(c, force)) =>
               /\ analyzer'.pc = "idle"
               /\ InsertedIds # {} =>
                     InsertedAre(_check_basic_punctuation(contents[c].cleaned_text))
       /\ (analyzer.pc = "await" /\ (api_request_raises \/ api_status_error)) =>
            BackendFailureAbsorbed]_vars

CommitFailureKeepsStatus ==
    [][\A c \in DOMAIN contents :
          (analyzer.pc = "await" /\ api_response /\ CommitFailed(c)) =>
             \A d \in DOMAIN contents : contents'[d].status = contents[d].status]_vars

WithinText(row, text) ==
    /\ 0 <= row.start_position
    /\ row.start_position <= row.end_position
    /\ row.end_position <= Len(text)
    /\ SubSeq(text, row.start_position + 1, row.end_position) = row.original_text

LocalPersistedWithinText ==
    [][~ api_client =>
          \A i \in InsertedIds :
             WithinText(suggestions'[i], AnalyzedText(suggestions'[i].content_id))]_vars

----------------------------------------------------------------------------
(* Properties of the crawler's links and of the start of a job *)

\* links is a list of absolute URLs of the site of base_url, none twice
SameHostNoDuplicates(links, base_url) ==
    /\ \A k \in 1..Len(links) :
          links[k].netloc # "" /\ links[k].netloc = base_url.netloc
    /\ \A k, l \in 1..Len(links) : links[k] = links[l] => k = l

\* C19: the links selected on a page are absolute URLs of the page's own host,
\* none twice; so every URL a crawl job fetches, or is about to fetch, has the
\* host of the job's seed URL.
C19_SameHostLinks ==
    \A j \in DOMAIN crawler :
        /\ \A k \in 1..Len(crawler[j].crawled_urls) :
              \A links \in Orderings(_extract_links(crawler[j].crawled_urls[k])) :
                  SameHostNoDuplicates(links, crawler[j].crawled_urls[k])
        /\ \A k \in 1..Len(crawler[j].fetches) :
              crawler[j].fetches[k].url.netloc = crawler[j].start_url.netloc
        /\ \A k \in 1..Len(crawler[j].calls) :
              crawler[j].calls[k].url.netloc = crawler[j].start_url.netloc

\* a job has stored the seed page, which has an anchor to another site and the
\* same anchor twice, and has fetched a page that the seed page links to
C19_LinkFollowed ==
    \E j \in DOMAIN crawler :
        /\ crawler[j].crawled_urls # <<>>
        /\ crawler[j].crawled_urls[1] = crawler[j].start_url
        /\ \E k \in 1..Len(Hrefs(crawler[j].start_url)) :
              urljoin(crawler[j].start_url, Hrefs(crawler[j].start_url)[k]).netloc
                  # crawler[j].start_url.netloc
        /\ \E k, l \in 1..Len(Hrefs(crawler[j].start_url)) :
              k # l /\ Hrefs(crawler[j].start_url)[k] = Hrefs(crawler[j].start_url)[l]
        /\ \E k \in 1..Len(crawler[j].fetches) :
              /\ crawler[j].fetches[k].depth = 1
              /\ crawler[j].fetches[k].url \in _extract_links(crawler[j].start_url)

\* C20: startJob creates a new Job with status pending, schedules the crawl as
\* a background task and returns the id of the job without waiting for it: at
\* the step that returns, the Job is pending and no page of it has been
\* fetched.
C20_StartReturnsPending ==
    [][\A id \in (DOMAIN crawl_jobs') \ (DOMAIN crawl_jobs) :
          /\ resp' = Response("start_crawl", id, "started", 200)
          /\ crawl_jobs'[id].status = "pending"
          /\ crawl_jobs'[id].pages_crawled = 0
          /\ id \in DOMAIN crawler'
          /\ crawler'[id].pc = "created"
          /\ crawler'[id].fetches = <<>>
          /\ crawler'[id].start_url = crawl_jobs'[id].url
          /\ UNCHANGED <<contents, audit_logs>>]_vars

\* a start has returned the id of its job, which is pending, its task created
\* and not yet run
C20_StartReturned ==
    /\ resp.op = "start_crawl" /\ resp.code = 200
    /\ resp.arg \in DOMAIN crawl_jobs
    /\ crawl_jobs[resp.arg].status = "pending"
    /\ crawler[resp.arg].pc = "created"
    /\ crawler[resp.arg].fetches = <<>>

----------------------------------------------------------------------------
(* Properties of the crawl job's bookkeeping *)

\* C21: a failure confined to one URL (the request fails, the status is not
\* 200, the page cannot be extracted, or the page cannot be persisted) is
\* absorbed: the traversal raises nothing and leaves the job as it is, and
\* when the traversal has returned and nothing fails at the end of crawl_url
\* the job ends completed.
C21_PageFailureAbsorbed ==
    [][\A j \in DOMAIN crawler :
          /\ _crawl_recursive(j) =>
                /\ crawler'[j].pc \in {"sleeping", "fetching", "closing"}
                /\ crawl_jobs'[j] = crawl_jobs[j]
          /\ (crawl_url_leaves(j, TRUE, TRUE) /\ crawl_jobs[j].status = "running") =>
                /\ crawl_jobs'[j].status = "completed"
                /\ crawler'[j].pc = "done"]_vars

\* the claim for the failures that do not touch the database session: a job
\* whose every commit went through ends completed
PageFailureAbsorbedBySession ==
    [][\A j \in DOMAIN crawler :
          /\ _crawl_recursive(j) =>
                /\ crawler'[j].pc \in {"sleeping", "fetching", "closing"}
                /\ crawl_jobs'[j] = crawl_jobs[j]
          /\ (/\ crawl_url_leaves(j, TRUE, TRUE) /\ crawl_jobs[j].status = "running"
              /\ crawler[j].session_ok) =>
                /\ crawl_jobs'[j].status = "completed"
                /\ crawler'[j].pc = "done"]_vars

\* crawl_url has raised and left its job running, after a traversal in which
\* a page could not be persisted
C21_RaisedAfterPageFailure ==
    \E j \in DOMAIN crawler :
        /\ crawler[j].pc = "raised"
        /\ ~ crawler[j].session_ok
        /\ crawler[j].fetches # <<>>
        /\ crawl_jobs[j].status = "running"

\* C22: when crawl_url fails outside the handling of single URLs, the status
\* of the job becomes failed with an error_message that is not null, and the
\* exception leaves crawl_url; every job whose status is failed has its
\* error_message set.
C22_FailedWithMessage ==
    [][\A j \in DOMAIN crawler :
          /\ (crawler[j].pc # "raised" /\ crawler'[j].pc = "raised") =>
                /\ crawl_jobs'[j].status = "failed"
                /\ crawl_jobs'[j].error_message # "NULL"
          /\ crawl_jobs'[j].status = "failed" =>
                crawl_jobs'[j].error_message # "NULL"]_vars

\* the claim for an error that is not one of the database: leaving the client
\* session raises while the database session is intact
FailedWithMessageOnClose ==
    [][\A j \in DOMAIN crawler :
          /\ (crawl_url_leaves(j, FALSE, TRUE) /\ crawler[j].session_ok) =>
                /\ crawler'[j].pc = "raised"
                /\ crawl_jobs'[j].status = "failed"
                /\ crawl_jobs'[j].error_message # "NULL"
          /\ crawl_jobs'[j].status = "failed" =>
                crawl_jobs'[j].error_message # "NULL"]_vars

\* crawl_url has raised before its first request, and its job is still pending
C22_RaisedStillPending ==
    \E j \in DOMAIN crawler :
        /\ crawler[j].pc = "raised"
        /\ crawler[j].fetches = <<>>
        /\ crawl_jobs[j].status = "pending"
        /\ crawl_jobs[j].error_message = "NULL"

\* the Content rows whose url is one of urls
StoredPages(urls) ==
    {c \in DOMAIN contents : \E k \in 1..Len(urls) : contents[c].url = urls[k]}

C24_PagesCrawledFollows ==
    /\ \A j \in DOMAIN crawl_jobs :
          crawl_jobs[j].status = "running" =>
              crawl_jobs[j].pages_crawled = Cardinality(StoredPages(crawler[j].crawled_urls))
    /\ Cardinality({k \in 1..Len(audit_logs) : audit_logs[k].action = "crawled"})
          = Cardinality(DOMAIN contents)

\* the claim without the counter of the job: a step that stores a page adds
\* one Content row and one "crawled" audit row, and notes the url as crawled
PageStoredOnce ==
    [][\A j \in DOMAIN crawler :
          (_crawl_recursive(j) /\ contents' # contents) =>
             /\ Cardinality(DOMAIN contents') = Cardinality(DOMAIN contents) + 1
             /\ Len(audit_logs') = Len(audit_logs) + 1
             /\ audit_logs'[Len(audit_logs')].action = "crawled"
             /\ Len(crawler'[j].crawled_urls) = Len(crawler[j].crawled_urls) + 1]_vars

\* a running job has stored a page and still counts no page
C24_StoredNotCounted ==
    \E j \in DOMAIN crawl_jobs :
        /\ crawl_jobs[j].status = "running"
        /\ crawl_jobs[j].pages_crawled = 0
        /\ StoredPages(crawler[j].crawled_urls) # {}

\* C25: Content.url is unique in every reachable state: no two Content rows
\* have the same url, also when two crawl jobs, running together or one after
\* the other, reach the same URL.
C25_UrlUnique ==
    \A c, d \in DOMAIN contents : contents[c].url = contents[d].url => c = d

\* two jobs have both requested the seed; one has stored it, the other has not,
\* its commit refused, and the store holds the seed once
C25_SecondInsertRefused ==
    \E j, k \in DOMAIN crawler :
        /\ j # k
        /\ crawler[j].crawled_urls # <<>>
        /\ crawler[j].crawled_urls[1] = crawler[j].start_url
        /\ crawler[k].fetches # <<>>
        /\ crawler[k].fetches[1].url = crawler[j].start_url
        /\ crawler[k].pc # "fetching"
        /\ crawler[k].crawled_urls = <<>>
        /\ ~ crawler[k].session_ok
        /\ Cardinality({c \in DOMAIN contents : contents[c].url = crawler[j].start_url}) = 1

----------------------------------------------------------------------------
(* Properties of the store under review and deletion *)

\* C26: original_text of a Content never changes after the row is created:
\* analyze, approve, reject and apply leave it as it is, and apply changes of
\* the Content only its cleaned_text.
C26_OriginalTextFrozen ==
    [][/\ \A c \in (DOMAIN contents) \cap (DOMAIN contents') :
             contents'[c].original_text = contents[c].original_text
       /\ \A i \in DOMAIN suggestions, u \in UserIds :
             apply_suggestion(i, u) =>
                \A c \in DOMAIN contents :
                    /\ c \in DOMAIN contents'
                    /\ contents'[c]
                          = [contents[c] EXCEPT !.cleaned_text = contents'[c].cleaned_text]]_vars

\* an analyzed content has had a suggestion applied: its cleaned_text has moved
\* away from its original_text
C26_CleanedTextMoved ==
    \E c \in DOMAIN contents :
        /\ contents[c].status = "analyzed"
        /\ contents[c].cleaned_text # contents[c].original_text
        /\ \E i \in DOMAIN suggestions :
              suggestions[i].content_id = c /\ suggestions[i].status = "applied"

\* the step has appended to the audit log exactly one row, of the action
OneRowAppended(action) ==
    /\ Len(audit_logs') = Len(audit_logs) + 1
    /\ audit_logs'[Len(audit_logs')].action = action

\* the audit rows written so far are in the log as they were written
AuditRowsKept ==
    /\ Len(audit_logs') >= Len(audit_logs)
    /\ \A k \in 1..Len(audit_logs) : audit_logs'[k] = audit_logs[k]

\* C27: the audit log is append-only: no operation modifies or deletes a row
\* once written, and each successful analyze and each successful apply
\* appends exactly one row, of action analyzed and suggestion_applied.
C27_AuditAppendOnly ==
    [][/\ AuditRowsKept
       /\ \A c \in DOMAIN contents, force \in BOOLEAN :
             (analyze_content(c, force) /\ resp' = Response("analyze", c, "returned", 200))
                => OneRowAppended("analyzed")
       /\ \A i \in DOMAIN suggestions, u \in UserIds :
             (apply_suggestion(i, u) /\ resp' = Response("apply", i, "True", 200))
                => OneRowAppended("suggestion_applied")]_vars

\* the claim for the crawler: the rows written stay, and a step that stores a
\* page appends exactly one row, of action crawled
CrawlAuditAppendOnly ==
    [][/\ AuditRowsKept
       /\ contents' # contents => OneRowAppended("crawled")]_vars

\* a content that was analyzed has been deleted, and the audit row of the
\* analysis is in the log with no content_id
C27_AuditRowRewritten ==
    /\ resp.op = "delete" /\ resp.code = 200
    /\ \E k \in 1..Len(audit_logs) :
          audit_logs[k].action = "analyzed" /\ audit_logs[k].content_id = NULL

\* C28: the deletion of a Content removes the Suggestions and AuditLogs it
\* owns: after the delete no Suggestion and no AuditLog row that belonged to
\* the Content is left in the store, and no Suggestion that is left refers to
\* a Content that does not exist.
C28_DeleteCascades ==
    [][\A c \in DOMAIN contents :
          (delete_content(c) /\ resp' = Response("delete", c, "deleted", 200)) =>
             /\ c \notin DOMAIN contents'
             /\ \A i \in DOMAIN suggestions :
                   suggestions[i].content_id = c => i \notin DOMAIN suggestions'
             /\ Len(audit_logs')
                   = Cardinality({k \in 1..Len(audit_logs) : audit_logs[k].content_id # c})
             /\ \A i \in DOMAIN suggestions' :
                   suggestions'[i].content_id \in DOMAIN contents']_vars

\* the claim for the Content row itself: a delete that returns removes the row
\* and no other, and a delete of an unknown id answers not-found
DeleteRemovesContent ==
    [][\A c \in RequestIds(contents) :
          delete_content(c) =>
             IF resp' = Response("delete", c, "deleted", 200)
             THEN /\ DOMAIN contents' = (DOMAIN contents) \ {c}
                  /\ \A d \in DOMAIN contents' : contents'[d] = contents[d]
             ELSE UNCHANGED <<contents, suggestions, audit_logs>>]_vars

\* a content with a suggestion has been deleted, and the suggestion is still
\* in the store, with no content_id
C28_SuggestionOrphaned ==
    /\ resp.op = "delete" /\ resp.code = 200
    /\ resp.arg \notin DOMAIN contents
    /\ \E i \in DOMAIN suggestions : suggestions[i].content_id = NULL

\* C29: in every reachable state the status of every Suggestion is one of
\* pending, approved, rejected, applied, so that the dashboard's counts of the
\* pending, approved, rejected and applied suggestions sum to its count of all
\* suggestions.
C29_StatusCountsSum ==
    /\ \A i \in DOMAIN suggestions :
          suggestions[i].status \in {"pending", "approved", "rejected", "applied"}
    /\ LET stats == get_dashboard_stats
       IN  stats.pending_suggestions + stats.approved_suggestions
             + stats.rejected_suggestions + stats.applied_suggestions
               = stats.total_suggestions

\* the store holds an approved and an applied suggestion and no other
C29_TwoStatuses ==
    /\ get_dashboard_stats.total_suggestions = 2
    /\ get_dashboard_stats.approved_suggestions = 1
    /\ get_dashboard_stats.applied_suggestions = 1

\* the urls a task has requested
Fetched(t) == {t.fetches[k].url : k \in DOMAIN t.fetches}

\* C30: each crawl job has its own visited set and its own list of collected
\* pages: the set of a job holds the urls that job has come to request and no
\* other, whatever another job visited. Within one job no url is requested
\* twice: a url is in the visited set before its request is sent, and a later
\* call on it returns at once, whether its request succeeded or failed and
\* whether the later call is at a smaller depth.
C30_VisitedOncePerJob ==
    \A j \in DOMAIN crawler :
        LET t == crawler[j] IN
        /\ \A k, l \in DOMAIN t.fetches :
              k # l => t.fetches[k].url # t.fetches[l].url
        /\ t.visited_urls =
              Fetched(t) \cup (IF t.pc = "sleeping" THEN {Head(t.calls).url} ELSE {})
        /\ \A k \in DOMAIN t.crawled_urls : t.crawled_urls[k] \in Fetched(t)

\* a job has made all its calls below the cap on pages; page /3, a link of the
\* seed, was requested at depth 2 and not stored; another job has requested
\* the seed this job requested
C30_DeepFailedFetchNotRepeated ==
    \E j, i \in DOMAIN crawler :
        LET t == crawler[j] IN
        /\ i # j
        /\ t.pc = "closing"
        /\ Len(t.crawled_urls) < MAX_PAGES_PER_DOMAIN
        /\ \E k \in DOMAIN t.fetches :
              t.fetches[k] = [url |-> Url("a", "/3"), depth |-> 2, delayed |-> TRUE]
        /\ \A k \in DOMAIN t.crawled_urls : t.crawled_urls[k] # Url("a", "/3")
        /\ t.start_url \in Fetched(t) \cap Fetched(crawler[i])

\* ---------------------------------------------------------------------------
\* Properties of the traversal
\* ---------------------------------------------------------------------------

\* C31: within one crawl job the delay is awaited before every request except
\* the first of the job: the first request is the seed's and is never delayed,
\* and every later request follows a delay.
C31_DelayBeforeLaterFetches ==
    \A j \in DOMAIN crawler :
        LET t == crawler[j] IN
        /\ \A k \in DOMAIN t.fetches : t.fetches[k].delayed = (k # 1)
        /\ t.fetches # <<>> =>
              /\ t.fetches[1].url = t.start_url
              /\ t.fetches[1].depth = 0
        /\ t.pc = "sleeping" => t.fetches # <<>>

\* a job has sent three requests and collected only the seed: the request
\* before the third one failed
C31_DelayedAfterFailure ==
    \E j \in DOMAIN crawler :
        /\ Len(crawler[j].fetches) = 3
        /\ Len(crawler[j].crawled_urls) = 1
        /\ crawler[j].fetches[3].delayed

\* C32: a page requested at depth d is expanded only if d < max_depth, and then
\* into at most 10 of its selected links, each called at depth d + 1; a page at
\* depth max_depth is requested and stored but none of its links is followed.
C32_ExpansionBounded ==
    [][\A j \in DOMAIN crawler :
           (crawler[j].pc = "fetching" /\ crawler'[j] # crawler[j]) =>
               LET page == Head(crawler[j].calls)
                   added == Len(crawler'[j].calls) - Len(Tail(crawler[j].calls))
               IN  /\ added <= LinksPerPage
                   /\ added > 0 =>
                         /\ page.depth < MAX_CRAWL_DEPTH
                         /\ crawler'[j].crawled_urls =
                                Append(crawler[j].crawled_urls, page.url)
                         /\ \A k \in 1..added :
                               /\ crawler'[j].calls[k].depth = page.depth + 1
                               /\ crawler'[j].calls[k].url \in _extract_links(page.url)
                   /\ page.depth = MAX_CRAWL_DEPTH =>
                         crawler'[j].calls \in {<<>>} \cup
                             {SubSeq(crawler[j].calls, k, Len(crawler[j].calls)) :
                                 k \in 2..Len(crawler[j].calls)}]_vars

\* the index page, which has more links than are followed, is stored and the
\* calls on its links are pending: as many as are followed, all at depth 1
C32_IndexPageExpanded ==
    \E j \in DOMAIN crawler :
        LET t == crawler[j] IN
        /\ Cardinality(_extract_links(t.start_url)) > LinksPerPage
        /\ t.crawled_urls = <<t.start_url>>
        /\ Len(t.calls) = LinksPerPage
        /\ \A k \in DOMAIN t.calls : t.calls[k].depth = 1

\* a page requested at depth max_depth is stored
C32_LeafStored ==
    \E j \in DOMAIN crawler :
        \E k \in DOMAIN crawler[j].fetches :
            /\ crawler[j].fetches[k].depth = MAX_CRAWL_DEPTH
            /\ \E c \in DOMAIN crawler[j].crawled_urls :
                  crawler[j].crawled_urls[c] = crawler[j].fetches[k].url

\* C33: a crawl started with max_depth = d and max_pages = p in the request is
\* bounded by them: the job requests no url deeper than d and stores at most p
\* Content rows.
C33_RequestBoundsCrawl ==
    \A j \in DOMAIN crawler :
        LET t == crawler[j] IN
        /\ \A k \in DOMAIN t.fetches : t.fetches[k].depth <= t.request.max_depth
        /\ Cardinality({c \in DOMAIN contents :
                           \E k \in DOMAIN t.crawled_urls :
                               contents[c].url = t.crawled_urls[k]})
              <= t.request.max_pages

\* a job asked for one page at depth 1 at most has stored two pages
C33_TwoPagesForOne ==
    \E j \in DOMAIN crawler :
        /\ crawler[j].request.max_depth = 1
        /\ crawler[j].request.max_pages = 1
        /\ Len(crawler[j].crawled_urls) = 2
        /\ Cardinality(DOMAIN contents) = 2

\* the bounds that do hold are those of the settings, whatever the request
SettingsBoundCrawl ==
    \A j \in DOMAIN crawler :
        /\ \A k \in DOMAIN crawler[j].fetches :
              crawler[j].fetches[k].depth <= MAX_CRAWL_DEPTH
        /\ Len(crawler[j].crawled_urls) <= MAX_PAGES_PER_DOMAIN

\* C34: every crawl job terminates: each request answering or timing out, the
\* task sends finitely many requests and the Job eventually reaches completed
\* or failed; no job stays running for ever.
C34_JobEnds ==
    <>(\A j \in DOMAIN crawl_jobs : crawl_jobs[j].status \in {"completed", "failed"})

\* the task itself ends, by returning or by raising
TaskEnds ==
    <>(\A j \in DOMAIN crawler : crawler[j].pc \in {"done", "raised"})

\* a task that returns leaves its job completed
ReturnedMeansCompleted ==
    \A j \in DOMAIN crawler :
        crawler[j].pc = "done" => crawl_jobs[j].status = "completed"

\* the task of a job has ended with all its calls made and a page stored, and
\* the job is running
C34_EndedWhileRunning ==
    \E j \in DOMAIN crawler :
        /\ crawler[j].pc = "raised"
        /\ crawler[j].calls = <<>>
        /\ crawler[j].crawled_urls # <<>>
        /\ crawl_jobs[j].status = "running"

\* the links of a page that are followed whatever the order of the list: all
\* of them when they are no more than links[:10] keeps, and else none for certain
FollowedLinks(url) ==
    IF Cardinality(_extract_links(url)) <= LinksPerPage
    THEN _extract_links(url)
    ELSE {}

RECURSIVE Within(_, _)
\* the urls at most d followed links away from a url of S
Within(S, d) ==
    IF d = 0 THEN S
    ELSE Within(S \cup UNION {FollowedLinks(u) : u \in S}, d - 1)

\* the task has made all its calls, every request of it ended in a stored
\* page, and the cap on pages was not reached
CrawledUnhindered(t) ==
    /\ t.pc \in {"closing", "done"}
    /\ Len(t.fetches) = Len(t.crawled_urls)
    /\ Len(t.crawled_urls) < MAX_PAGES_PER_DOMAIN

\* C35: if every request and extraction succeeds and the cap on pages is not
\* reached, every url at most max_depth followed links away from the seed is
\* requested and stored by the job, also a url the traversal first reaches at
\* depth max_depth and that a shorter path leads to as well.
C35_CrawlComplete ==
    \A j \in DOMAIN crawler :
        CrawledUnhindered(crawler[j]) =>
            \A u \in Within({crawler[j].start_url}, MAX_CRAWL_DEPTH) :
                /\ \E k \in DOMAIN crawler[j].crawled_urls : crawler[j].crawled_urls[k] = u
                /\ UrlTaken(u)

\* what holds is completeness one link away from the seed
SeedLinksCrawled ==
    \A j \in DOMAIN crawler :
        CrawledUnhindered(crawler[j]) =>
            \A u \in Within({crawler[j].start_url}, 1) :
                \E k \in DOMAIN crawler[j].crawled_urls : crawler[j].crawled_urls[k] = u

\* a job of site c has ended unhindered with the seed, /1 and /2 stored, /2
\* requested at depth max_depth; /3, a link of /2, was never called
C35_ShorterPathLost ==
    \E j \in DOMAIN crawler :
        LET t == crawler[j] IN
        /\ CrawledUnhindered(t)
        /\ t.pc = "done"
        /\ t.crawled_urls = <<Url("c", "/0"), Url("c", "/1"), Url("c", "/2")>>
        /\ t.fetches[3].depth = MAX_CRAWL_DEPTH
        /\ Url("c", "/2") \in _extract_links(t.start_url)
        /\ Url("c", "/3") \in Within({t.start_url}, MAX_CRAWL_DEPTH) \ t.visited_urls

\* C36: the links of a page are followed only if the page answered 200, its
\* extraction gave content and its Content row was committed; a page whose
\* request, extraction or commit fails contributes no call, so every url
\* requested or waiting to be requested, the seed apart, is a link of a page
\* the job stored as Content, called one level below that page.
C36_LinksOfStoredPagesOnly ==
    \A j \in DOMAIN crawler :
        LET t == crawler[j]
            LinkedFromStored(call) ==
                \E p \in DOMAIN t.fetches :
                    /\ t.fetches[p].depth + 1 = call.depth
                    /\ call.url \in _extract_links(t.fetches[p].url)
                    /\ \E c \in DOMAIN t.crawled_urls :
                          t.crawled_urls[c] = t.fetches[p].url
                    /\ UrlTaken(t.fetches[p].url)
        IN  /\ \A k \in DOMAIN t.fetches : k > 1 => LinkedFromStored(t.fetches[k])
            /\ \A k \in DOMAIN t.calls :
                  t.calls[k].depth > 0 => LinkedFromStored(t.calls[k])

\* the calls of a job are all made, a commit of it was refused, and a page
\* with links, requested below max_depth as a link of the seed, is not stored
C36_UnstoredPageNotExpanded ==
    \E j \in DOMAIN crawler :
        LET t == crawler[j] IN
        /\ t.pc \in {"closing", "raised"}
        /\ ~ t.session_ok
        /\ \E k \in DOMAIN t.fetches :
              /\ k > 1
              /\ _extract_links(t.fetches[k].url) # {}
              /\ t.fetches[k].depth < MAX_CRAWL_DEPTH
              /\ \A c \in DOMAIN t.crawled_urls : t.crawled_urls[c] # t.fetches[k].url

\* the Content rows of the page an audit row of the crawler names in its details
PageOf(row) == {c \in DOMAIN contents : contents[c].url.path = row.details.s}

\* C37: every "crawled" row of the audit log refers, by its content_id, to the
\* Content row stored for that page in the same commit.
C37_CrawledRowRefersToContent ==
    \A k \in DOMAIN audit_logs :
        audit_logs[k].action = "crawled" =>
            /\ audit_logs[k].content_id \in DOMAIN contents
            /\ audit_logs[k].content_id \in PageOf(audit_logs[k])

\* a "crawled" row is committed together with the Content row of its page
CrawledRowComesWithContent ==
    \A k \in DOMAIN audit_logs :
        audit_logs[k].action = "crawled" => Cardinality(PageOf(audit_logs[k])) = 1

\* two pages are stored, and the "crawled" row of each has no content_id
C37_CrawledRowsWithoutContent ==
    /\ Cardinality(DOMAIN contents) = 2
    /\ Len(audit_logs) = 2
    /\ \A k \in DOMAIN audit_logs :
          /\ audit_logs[k].action = "crawled"
          /\ audit_logs[k].content_id = NULL
          /\ PageOf(audit_logs[k]) # {}

\* ---------------------------------------------------------------------------
\* Properties of the analysis beside the review
\* ---------------------------------------------------------------------------

AnalysisKeepsAppliedText ==
    [][(analyzer.pc = "await" /\ analyzer'.pc = "idle") =>
          \A c \in DOMAIN contents :
             contents'[c].cleaned_text = contents[c].cleaned_text]_vars

C39_AnalyzeOnlyAdds ==
    [][\A c \in RequestIds(contents), force \in BOOLEAN :
          (analyze_content(c, force) \/ api_response) =>
              /\ \A i \in DOMAIN suggestions :
                    i \in DOMAIN suggestions' /\ suggestions'[i] = suggestions[i]
              /\ (~ api_client /\ analyze_content(c, force) /\ resp'.ret = "returned") =>
                    /\ Cardinality(InsertedIds)
                          = Len(_check_basic_punctuation(contents[c].cleaned_text))
                    /\ \A i \in InsertedIds :
                          /\ suggestions'[i].content_id = c
                          /\ suggestions'[i].status = "pending"]_vars

\* a content was analyzed twice: a suggestion of the first analysis has been
\* applied, and a pending one of the second stands beside it
C39_ReanalyzedBesideApplied ==
    \E c \in DOMAIN contents :
        /\ Cardinality({k \in DOMAIN audit_logs :
                            /\ audit_logs[k].action = "analyzed"
                            /\ audit_logs[k].content_id = c}) = 2
        /\ \E i, k \in DOMAIN suggestions :
              /\ i < k
              /\ suggestions[i].content_id = c /\ suggestions[i].status = "applied"
              /\ suggestions[k].content_id = c /\ suggestions[k].status = "pending"

\* C40: apply changes only the status of the applied suggestion, the
\* cleaned_text of the Content that owns it and the audit log: the status of
\* that Content, every other Content, and the status, start_position and
\* end_position of every other Suggestion, the other pending suggestions of
\* the same Content included, are left as they were.
C40_ApplyFrame ==
    [][\A i \in RequestIds(suggestions), u \in UserIds :
          apply_suggestion(i, u) =>
              /\ DOMAIN contents' = DOMAIN contents
              /\ \A c \in DOMAIN contents :
                    /\ contents'[c].status = contents[c].status
                    /\ [contents'[c] EXCEPT !.cleaned_text = contents[c].cleaned_text]
                          = contents[c]
                    /\ (i \notin DOMAIN suggestions \/ suggestions[i].content_id # c) =>
                          contents'[c] = contents[c]
              /\ DOMAIN suggestions' = DOMAIN suggestions
              /\ \A k \in DOMAIN suggestions :
                    /\ k # i => suggestions'[k] = suggestions[k]
                    /\ [suggestions'[k] EXCEPT !.status = suggestions[k].status]
                          = suggestions[k]
              /\ UNCHANGED <<settings, crawl_jobs, analyzer, crawler>>]_vars

\* an apply has succeeded on a content of a store with another content, and
\* another suggestion of the same content is pending at the range it had
C40_AppliedBesidePending ==
    /\ resp.op = "apply" /\ resp.code = 200
    /\ Cardinality(DOMAIN contents) > 1
    /\ resp.arg \in DOMAIN suggestions
    /\ suggestions[resp.arg].status = "applied"
    /\ \E k \in DOMAIN suggestions :
          /\ k # resp.arg
          /\ suggestions[k].content_id = suggestions[resp.arg].content_id
          /\ suggestions[k].status = "pending"
          /\ suggestions[k].start_position > suggestions[resp.arg].start_position

====
